---- MODULE Spec2Model ----
(***************************************************************************)
(* A state-machine model of src/main.js: the driver loop (main), the cycle *)
(* scheduler (processAllAccounts), the account pipeline (processAccount)   *)
(* and the calls it makes (getNonce, signMessage, verifySignature,         *)
(* getUserProfile, updateStreakWithRetry, processSocialTasks, verifyTask,  *)
(* getUserExperience, saveCookies).                                        *)
(*                                                                         *)
(* The program is one thread of control, so one program counter `pc`       *)
(* stands for the whole call stack.  Every `await` of a network call is    *)
(* two steps: the request is put in `inflight`, and a later step takes the *)
(* response (or the transport error) out of it and runs the code up to     *)
(* the next await.  A fixed or random delay that precedes a request is     *)
(* part of the step that issues the request, except for the two delays     *)
(* that the code takes conditionally (RETRY_DELAY and the inter-account    *)
(* delay), which are steps of their own.                                   *)
(*                                                                         *)
(* JavaScript values are records that hold exactly the fields present in   *)
(* the object; null is the record Null.  The remote service, the signer    *)
(* and the file system are the environment: every outcome they can         *)
(* produce is a nondeterministic choice.  logToFile is taken not to fail.  *)
(***************************************************************************)
EXTENDS Integers, Sequences, FiniteSets, TLC

\* ---------------------------------------------------------------- bounds
MaxWallets == 2
MaxTasks == 2

\* ------------------------------------------------------ program constants
MAX_RETRY_ATTEMPTS == 3

\* ------------------------------------------------------------- JS values
Null == [null |-> TRUE]
Has(r, f) == f \in DOMAIN r
IsNull(r) == Has(r, "null")

\* Values a JSON field can take, by how the code's tests see them:
\* "undefined" is an absent field; "null", "" and 0 are falsy.
Truthy(v) == v \notin {"undefined", "null", "", "0", "false"}

\* ------------------------------------------------------------ wallet file
\* A line of pk.txt: a key (well-formed or not), a comment or a blank line.
KeyLine(j, v) == [kind |-> "key", id |-> j, valid |-> v]
CommentLine == [kind |-> "comment"]
BlankLine == [kind |-> "blank"]

KeyLists ==
  UNION { { [j \in 1..n |-> KeyLine(j, v[j])] : v \in [1..n -> BOOLEAN] }
          : n \in 0..MaxWallets }

PkFiles == { <<CommentLine>> \o ks \o <<BlankLine>> : ks \in KeyLists }

\* readPrivateKeys: the lines that are neither empty nor comments, in order.
ParsePrivateKeys(lines) == SelectSeq(lines, LAMBDA l : l.kind = "key")

\* web3.eth.accounts.privateKeyToAccount(key).address
AddressOf(key) == key.id

\* ------------------------------------------------------- response bodies
\* GET /auth/eth/nonce: a bare string, {nonce}, {data:{nonce}}, both, none.
NonceValues == {"n1", "n2"}
NonceFieldValues == NonceValues \cup {"undefined", ""}
NonceBodies ==
  { [isString |-> TRUE, str |-> s] : s \in NonceValues \cup {""} }
  \cup { [isString |-> FALSE, nonce |-> a, dataNonce |-> b] :
           a \in NonceFieldValues, b \in NonceFieldValues }
  \cup { Null }

\* POST /auth/eth/verify, a 2xx body: an object without an `error` field,
\* an object whose `error` is truthy, an object whose `error` is present
\* but falsy (null, "", false, 0), JSON null, or an empty (string) body.
VerifyOk == [kind |-> "object", user |-> "user"]
VerifyErrTruthy == [kind |-> "object", error |-> "invalid signature"]
VerifyErrFalsy == [kind |-> "object", error |-> "null", user |-> "user"]
VerifyEmpty == [kind |-> "string"]
VerifyBodies == {VerifyOk, VerifyErrTruthy, VerifyErrFalsy, VerifyEmpty, Null}

\* A failed HTTP exchange: error.response is absent (no response), or has
\* a status and a body that is truthy or not.
HttpErrors ==
  { [hasResponse |-> FALSE] }
  \cup { [hasResponse |-> TRUE, status |-> s, data |-> d] :
           s \in {401, 500}, d \in {"body", ""} }

ErrMessage(e) ==
  IF e.hasResponse THEN IF e.status = 500 THEN "Request failed with status code 500"
                                          ELSE "Request failed with status code 401"
                   ELSE "Network Error"

\* POST /users/streak, a 2xx body.
StreakBody(s, l, d) == [streak |-> s, longestStreak |-> l, lastVisitDate |-> d]
StreakBodies ==
  { StreakBody("num", "num", "date"),
    StreakBody("null", "str", "date"),
    StreakBody("undefined", "num", "date"),
    StreakBody("num", "undefined", "date"),
    StreakBody("num", "num", "undefined"),
    StreakBody("num", "num", ""),
    Null }

\* GET /users/social/tasks, a 2xx body that is an array of task objects.
Task(j, c) == [id |-> j, completed |-> c]
TaskLists ==
  UNION { { [j \in 1..n |-> Task(j, c[j])] : c \in [1..n -> BOOLEAN] }
          : n \in 0..MaxTasks }

\* GET /users/social/tasks/{id}/verify, a 2xx body.
TaskVerifyBodies == { [success |-> "true"], [success |-> "false"], Null }

VARIABLES
  pc,            \* the statement the single thread of control is at
  pkFile,        \* the lines of pk.txt
  cookieFile,    \* whether gpu_net_cookies.json exists
  privateKeys,   \* processAllAccounts: privateKeys
  i,             \* processAllAccounts: i (0-based)
  results,       \* processAllAccounts: results
  summary,       \* processAllAccounts: the logged cycle summary, Null before it
  ret,           \* what the last processAllAccounts call returned ("true", "false"), "none" before it
  keysRead,      \* history: how readPrivateKeys ended in this cycle, "none" before it
  address,       \* processAccount: account.address, 0 before it is derived
  nonceData,     \* processAccount: nonceData
  signData,      \* processAccount: signData
  authResult,    \* processAccount: authResult
  profileData,   \* processAccount: profileData
  streakData,    \* processAccount: streakData
  tasksResult,   \* processAccount: tasksResult
  result,        \* the value processAccount returned to line 514
  attempts,      \* updateStreakWithRetry: attempts
  tasks,         \* processSocialTasks: tasks
  t,             \* processSocialTasks: position in pendingTasks (0-based)
  completedCount,\* processSocialTasks: completedCount
  inflight,      \* requests sent and not yet answered
  calls,         \* history: calls made in this processAccount run, per callee
  streakCalls,   \* history: POSTs made by this updateStreakWithRetry call
  streakOutcomes,\* history: how each of these POSTs ended, in order
  retryDelays,   \* history: RETRY_DELAY waits of this updateStreakWithRetry call
  verified,      \* history: task ids given to verifyTask in this task loop
  verifyOks,     \* history: what each of these verifyTask calls returned
  tasksFetch,    \* history: how the task list request of this run ended, "none" before it
  cookieWrites,  \* history: writes of the cookie file in this processAccount run
  interDelays,   \* history: inter-account waits of this cycle
  invoked,       \* history: wallet positions processAccount was invoked for, this cycle
  lastAuth,      \* history: wallet position of the latest nonce/verify request, this cycle
  verifyError,   \* history: the error verifySignature caught in this run, Null if none
  saves          \* history: how each saveCookies call of this run ended, in order

schedVars == << privateKeys, i, results, summary, ret, keysRead, interDelays, invoked >>
acctVars == << address, nonceData, signData, authResult, profileData, streakData,
               tasksResult, result >>
streakVars == << attempts, streakCalls, streakOutcomes, retryDelays >>
taskVars == << tasks, t, completedCount, verified, verifyOks, tasksFetch >>
cookieVars == << cookieFile, cookieWrites, saves >>

vars == << pc, pkFile, schedVars, acctVars, streakVars, taskVars, cookieVars,
           inflight, calls, lastAuth, verifyError >>

Callees == {"getNonce", "signMessage", "verifySignature", "getUserProfile",
            "updateStreakWithRetry", "processSocialTasks", "verifyTask",
            "getUserExperience"}
NoCalls == [c \in Callees |-> 0]
Called(c) == [calls EXCEPT ![c] = @ + 1]

PostAuthKinds == {"profile", "streak", "tasks", "taskVerify", "exp"}
AuthKinds == {"nonce", "verify"}

\* The position (1-based) of the wallet the loop of processAllAccounts is at.
Wallet == i + 1
Request(kind, body) == [kind |-> kind, wallet |-> Wallet, body |-> body]
Send(kind, body) == inflight' = inflight \cup {Request(kind, body)}
\* The awaited request of this kind is answered (or fails): it leaves the network.
Awaited(kind) == \E r \in inflight : r.kind = kind /\ r.wallet = Wallet
Receive(kind) ==
  inflight' = { r \in inflight : ~(r.kind = kind /\ r.wallet = Wallet) }

Init ==
  /\ pc = "main"
  /\ pkFile \in PkFiles
  /\ cookieFile \in BOOLEAN
  /\ privateKeys = << >>
  /\ i = 0
  /\ results = << >>
  /\ summary = Null
  /\ ret = "none"
  /\ keysRead = "none"
  /\ address = 0
  /\ nonceData = Null
  /\ signData = Null
  /\ authResult = Null
  /\ profileData = Null
  /\ streakData = Null
  /\ tasksResult = Null
  /\ result = Null
  /\ attempts = 0
  /\ tasks = << >>
  /\ t = 0
  /\ completedCount = 0
  /\ inflight = {}
  /\ calls = NoCalls
  /\ streakCalls = 0
  /\ streakOutcomes = << >>
  /\ retryDelays = 0
  /\ verified = << >>
  /\ verifyOks = << >>
  /\ tasksFetch = "none"
  /\ cookieWrites = 0
  /\ interDelays = 0
  /\ invoked = << >>
  /\ lastAuth = 0
  /\ verifyError = Null
  /\ saves = << >>

\* ------------------------------------------------------------------ main
\* main, lines 548-552: enter the loop and call processAllAccounts.
Main ==
  /\ pc = "main"
  /\ pc' = "cycle"
  /\ UNCHANGED << pkFile, schedVars, acctVars, streakVars, taskVars, cookieVars,
                  inflight, calls, lastAuth, verifyError >>

\* A variant of main without the `while (true)`: after the sleep main returns.
SleepThenReturn ==
  /\ pc = "sleep"
  /\ pc' = "returned"
  /\ UNCHANGED << pkFile, schedVars, acctVars, streakVars, taskVars, cookieVars,
                  inflight, calls, lastAuth, verifyError >>

\* main, lines 554-558: the fixed sleep ends and the loop calls
\* processAllAccounts again.
Sleep ==
  /\ pc = "sleep"
  /\ pc' = "cycle"
  /\ UNCHANGED << pkFile, schedVars, acctVars, streakVars, taskVars, cookieVars,
                  inflight, calls, lastAuth, verifyError >>

\* ---------------------------------------------------- processAllAccounts
\* Lines 502-506: a new call of processAllAccounts; loadCookies returns true
\* or false (file absent, unreadable, deserialize failing) and its result is
\* not used.
LoadCookies ==
  /\ pc = "cycle"
  /\ privateKeys' = << >>
  /\ i' = 0
  /\ results' = << >>
  /\ summary' = Null
  /\ ret' = "none"
  /\ keysRead' = "none"
  /\ interDelays' = 0
  /\ invoked' = << >>
  /\ lastAuth' = 0
  /\ pc' = "landing_send"
  /\ UNCHANGED << pkFile, acctVars, streakVars, taskVars, cookieVars, inflight, calls,
                  verifyError >>

\* initializeSession, lines 66-77: GET of the landing page.
InitializeSessionSend ==
  /\ pc = "landing_send"
  /\ inflight' = inflight \cup {[kind |-> "landing", wallet |-> 0, body |-> Null]}
  /\ pc' = "landing_wait"
  /\ UNCHANGED << pkFile, schedVars, acctVars, streakVars, taskVars, cookieVars,
                  calls, lastAuth, verifyError >>

\* initializeSession, lines 79-88: the page arrives, or the request fails and
\* the catch returns false; processAllAccounts goes on either way.
InitializeSessionDone ==
  /\ pc = "landing_wait"
  /\ \E r \in inflight : r.kind = "landing"
  /\ \E ok \in BOOLEAN :
       /\ inflight' = { r \in inflight : r.kind # "landing" }
       /\ pc' = "read_keys"
  /\ UNCHANGED << pkFile, schedVars, acctVars, streakVars, taskVars, cookieVars,
                  calls, lastAuth, verifyError >>

\* readPrivateKeys succeeds, lines 53-57 and 509-513.
ReadPrivateKeys ==
  /\ pc = "read_keys"
  /\ privateKeys' = ParsePrivateKeys(pkFile)
  /\ keysRead' = "read"
  /\ results' = << >>
  /\ i' = 0
  /\ pc' = "loop"
  /\ UNCHANGED << pkFile, summary, ret, interDelays, invoked, acctVars, streakVars,
                  taskVars, cookieVars, inflight, calls, lastAuth, verifyError >>

\* A variant of lines 58-61 that takes an unreadable file for an empty list
\* and lets the cycle go on.
ReadPrivateKeysFailsAsEmpty ==
  /\ pc = "read_keys"
  /\ privateKeys' = << >>
  /\ keysRead' = "failed"
  /\ results' = << >>
  /\ i' = 0
  /\ pc' = "loop"
  /\ UNCHANGED << pkFile, summary, ret, interDelays, invoked, acctVars, streakVars,
                  taskVars, cookieVars, inflight, calls, lastAuth, verifyError >>

\* readPrivateKeys throws, lines 58-61; the catch of processAllAccounts,
\* lines 541-543, returns false.
ReadPrivateKeysFails ==
  /\ pc = "read_keys"
  /\ ret' = "false"
  /\ keysRead' = "failed"
  /\ pc' = "sleep"
  /\ UNCHANGED << pkFile, privateKeys, i, results, summary, interDelays, invoked,
                  acctVars, streakVars, taskVars, cookieVars, inflight, calls, lastAuth, verifyError >>

\* Line 513, the loop condition.
LoopCond == i < Len(privateKeys)

\* Line 514: processAccount(privateKeys[i], i) is called.
InvokeProcessAccount ==
  /\ pc = "loop"
  /\ LoopCond
  /\ invoked' = Append(invoked, Wallet)
  /\ calls' = NoCalls
  /\ cookieWrites' = 0
  /\ saves' = << >>
  /\ pc' = "derive"
  /\ UNCHANGED << pkFile, keysRead, privateKeys, i, results, summary, ret, interDelays,
                  acctVars, streakVars, taskVars, cookieFile, inflight, lastAuth, verifyError >>

\* Lines 530-536: the reduce over the successful results that have tasks.
RECURSIVE SumField(_, _)
SumField(rs, f) ==
  IF rs = << >> THEN 0
  ELSE LET r == Head(rs)
           add == IF r.success /\ Has(r, "tasks") /\ Has(r.tasks, f) THEN r.tasks[f] ELSE 0
       IN  add + SumField(Tail(rs), f)

CountSuccess(rs) == Cardinality({ k \in 1..Len(rs) : rs[k].success })
CountFailure(rs) == Cardinality({ k \in 1..Len(rs) : ~rs[k].success })

\* Lines 524-538.
CycleSummary(rs) ==
  [ total |-> Len(rs),
    successful |-> CountSuccess(rs),
    failed |-> CountFailure(rs),
    completed |-> SumField(rs, "completed"),
    alreadyCompleted |-> SumField(rs, "alreadyCompleted") ]

\* Lines 513 (loop ends) and 524-540: the summary, then return true.
Summarize ==
  /\ pc = "loop"
  /\ ~LoopCond
  /\ summary' = CycleSummary(results)
  /\ ret' = "true"
  /\ pc' = "sleep"
  /\ UNCHANGED << pkFile, keysRead, privateKeys, i, results, interDelays, invoked, acctVars,
                  streakVars, taskVars, cookieVars, inflight, calls, lastAuth, verifyError >>

\* A variant of line 517 that also holds at the last wallet.
NotPastLastWallet == i < Len(privateKeys)

\* Line 517.
NotLastWallet == i < Len(privateKeys) - 1

\* A variant of lines 514-517 that leaves the loop at the first failed result.
PushResultStopsOnFailure ==
  /\ pc = "acct_done"
  /\ results' = Append(results, result)
  /\ IF ~result.success
       THEN pc' = "loop" /\ i' = Len(privateKeys)
       ELSE IF NotLastWallet
         THEN pc' = "inter_delay" /\ i' = i
         ELSE pc' = "loop" /\ i' = i + 1
  /\ address' = 0
  /\ nonceData' = Null
  /\ signData' = Null
  /\ authResult' = Null
  /\ profileData' = Null
  /\ streakData' = Null
  /\ tasksResult' = Null
  /\ result' = Null
  /\ verifyError' = Null
  /\ UNCHANGED << pkFile, keysRead, privateKeys, summary, ret, interDelays, invoked,
                  streakVars, taskVars, cookieVars, inflight, calls, lastAuth >>

\* Lines 514-517: processAccount has returned; its result is pushed.  The
\* locals of the finished call are gone.
PushResult ==
  /\ pc = "acct_done"
  /\ results' = Append(results, result)
  /\ IF NotLastWallet
       THEN pc' = "inter_delay" /\ i' = i
       ELSE pc' = "loop" /\ i' = i + 1
  /\ address' = 0
  /\ nonceData' = Null
  /\ signData' = Null
  /\ authResult' = Null
  /\ profileData' = Null
  /\ streakData' = Null
  /\ tasksResult' = Null
  /\ result' = Null
  /\ verifyError' = Null
  /\ UNCHANGED << pkFile, keysRead, privateKeys, summary, ret, interDelays, invoked,
                  streakVars, taskVars, cookieVars, inflight, calls, lastAuth >>

\* Lines 518-522: the random inter-account wait, then i++.
InterAccountDelay ==
  /\ pc = "inter_delay"
  /\ interDelays' = interDelays + 1
  /\ i' = i + 1
  /\ pc' = "loop"
  /\ UNCHANGED << pkFile, keysRead, privateKeys, results, summary, ret, invoked, acctVars,
                  streakVars, taskVars, cookieVars, inflight, calls, lastAuth, verifyError >>

\* ----------------------------------------------------------- saveCookies
\* saveCookies, lines 91-106: jar.serialize() yields a string and the file is
\* written; or it yields something else; or it throws.  The last two return
\* false and write nothing.  The callers ignore the outcome (lines 142-146,
\* 200-204).
SaveOutcomes == {"written", "nonstring", "threw"}
SaveCookies(o) ==
  /\ cookieFile' = IF o = "written" THEN TRUE ELSE cookieFile
  /\ cookieWrites' = IF o = "written" THEN cookieWrites + 1 ELSE cookieWrites
  /\ saves' = Append(saves, o)

\* --------------------------------------------------------- processAccount
\* The catch of processAccount, lines 495-497.
Caught(message) ==
  /\ result' = [success |-> FALSE, error |-> message]
  /\ pc' = "acct_done"

\* Lines 442-448: the identity is derived from the key; a malformed key
\* throws.
DeriveIdentity ==
  /\ pc = "derive"
  /\ LET key == privateKeys[Wallet]
     IN  IF key.valid
           THEN address' = AddressOf(key) /\ pc' = "nonce_send" /\ result' = result
           ELSE address' = address /\ Caught("Invalid Private Key")
  /\ UNCHANGED << pkFile, schedVars, nonceData, signData, authResult, profileData,
                  streakData, tasksResult, streakVars, taskVars, cookieVars,
                  inflight, calls, lastAuth, verifyError >>

\* Lines 451-452 and getNonce, lines 127-138: the nonce request is sent.
GetNonceSend ==
  /\ pc = "nonce_send"
  /\ Send("nonce", [address |-> address])
  /\ calls' = Called("getNonce")
  /\ lastAuth' = Wallet
  /\ pc' = "nonce_wait"
  /\ UNCHANGED << pkFile, schedVars, acctVars, streakVars, taskVars, cookieVars,
                  verifyError >>

\* getNonce, lines 140-148: the response arrives, the cookies are saved
\* (best effort), response.data is returned.
GetNonceResponse ==
  /\ pc = "nonce_wait"
  /\ Awaited("nonce")
  /\ \E body \in NonceBodies, o \in SaveOutcomes :
       /\ nonceData' = body
       /\ SaveCookies(o)
  /\ Receive("nonce")
  /\ pc' = "sign"
  /\ UNCHANGED << pkFile, schedVars, address, signData, authResult, profileData,
                  streakData, tasksResult, result, streakVars, taskVars, calls, lastAuth, verifyError >>

\* A variant of processAccount without its catch: the error of getNonce
\* reaches the catch of processAllAccounts, lines 541-543.
GetNonceFailsUncaught ==
  /\ pc = "nonce_wait"
  /\ Awaited("nonce")
  /\ \E e \in HttpErrors : ret' = "false"
  /\ Receive("nonce")
  /\ pc' = "sleep"
  /\ UNCHANGED << pkFile, keysRead, privateKeys, i, results, summary, interDelays, invoked,
                  acctVars, streakVars, taskVars, cookieVars, calls, lastAuth, verifyError >>

\* A variant of lines 149-156 and 452 that fetches the nonce again after a
\* failed request.
GetNonceFailsRetried ==
  /\ pc = "nonce_wait"
  /\ Awaited("nonce")
  /\ \E e \in HttpErrors : pc' = "nonce_send"
  /\ Receive("nonce")
  /\ UNCHANGED << pkFile, schedVars, acctVars, streakVars, taskVars,
                  cookieVars, calls, lastAuth, verifyError >>

\* getNonce, lines 149-156: the request fails, the error is thrown again and
\* reaches the catch of processAccount.
GetNonceFails ==
  /\ pc = "nonce_wait"
  /\ Awaited("nonce")
  /\ \E e \in HttpErrors : Caught(ErrMessage(e))
  /\ Receive("nonce")
  /\ UNCHANGED << pkFile, schedVars, address, nonceData, signData, authResult,
                  profileData, streakData, tasksResult, streakVars, taskVars,
                  cookieVars, calls, lastAuth, verifyError >>

\* signMessage, lines 164-165.
ExtractNonce(nd) ==
  IF IsNull(nd) THEN "unknown-nonce"
  ELSE IF nd.isString THEN nd.str
  ELSE IF Truthy(nd.nonce) THEN nd.nonce
  ELSE IF Truthy(nd.dataNonce) THEN nd.dataNonce
  ELSE "unknown-nonce"

\* signMessage, lines 161-173: the message template holds the address and the
\* nonce; the signature is the signer's function of key and message.
SignMessage(key, nd) ==
  LET message == [address |-> AddressOf(key), nonce |-> ExtractNonce(nd)]
  IN  [ message |-> message,
        signature |-> [signer |-> key.id, signed |-> message],
        address |-> AddressOf(key) ]

\* Lines 456-458: signMessage returns.  nonceData is not read after it.
Sign ==
  /\ pc = "sign"
  /\ signData' = SignMessage(privateKeys[Wallet], nonceData)
  /\ nonceData' = Null
  /\ calls' = Called("signMessage")
  /\ pc' = "verify_send"
  /\ UNCHANGED << pkFile, schedVars, address, authResult, profileData, streakData,
                  tasksResult, result, streakVars, taskVars, cookieVars, inflight,
                  lastAuth, verifyError >>

\* signMessage, lines 174-177: the signer throws.
SignFails ==
  /\ pc = "sign"
  /\ Caught("signing failed")
  /\ nonceData' = Null
  /\ calls' = Called("signMessage")
  /\ UNCHANGED << pkFile, schedVars, address, signData, authResult, profileData,
                  streakData, tasksResult, streakVars, taskVars, cookieVars,
                  inflight, lastAuth, verifyError >>

\* Lines 462-463 and verifySignature, lines 182-198: the verify request is sent
\* with signData.message and signData.signature.
VerifySignatureSend ==
  /\ pc = "verify_send"
  /\ Send("verify", [message |-> signData.message, signature |-> signData.signature])
  /\ calls' = Called("verifySignature")
  /\ lastAuth' = Wallet
  /\ pc' = "verify_wait"
  /\ UNCHANGED << pkFile, schedVars, acctVars, streakVars, taskVars, cookieVars,
                  verifyError >>

\* verifySignature, lines 200-206: the response arrives, the cookies are saved
\* (best effort), response.data is returned.  signData is not read after it.
VerifySignatureResponse ==
  /\ pc = "verify_wait"
  /\ Awaited("verify")
  /\ \E body \in VerifyBodies, o \in SaveOutcomes :
       /\ authResult' = body
       /\ SaveCookies(o)
  /\ Receive("verify")
  /\ signData' = Null
  /\ pc' = "auth_check"
  /\ UNCHANGED << pkFile, schedVars, address, nonceData, profileData, streakData,
                  tasksResult, result, streakVars, taskVars, calls, lastAuth, verifyError >>

\* A variant of line 212 that does not look at the body.
Is500(e) == e.hasResponse /\ e.status = 500

\* verifySignature, line 212.
Is500WithBody(e) == e.hasResponse /\ e.status = 500 /\ Truthy(e.data)

\* verifySignature, lines 207-218: the request fails; a 500 with a body is
\* returned as {error, status}, anything else is thrown again.
VerifySignatureFails ==
  /\ pc = "verify_wait"
  /\ Awaited("verify")
  /\ \E e \in HttpErrors :
       /\ verifyError' = e
       /\ IF Is500WithBody(e)
            THEN /\ authResult' = [kind |-> "object", error |-> e.data, status |-> e.status]
                 /\ pc' = "auth_check"
                 /\ result' = result
            ELSE /\ authResult' = authResult
                 /\ Caught(ErrMessage(e))
  /\ Receive("verify")
  /\ signData' = Null
  /\ UNCHANGED << pkFile, schedVars, address, nonceData, profileData, streakData,
                  tasksResult, streakVars, taskVars, cookieVars, calls, lastAuth >>

\* A variant of line 466 that looks at `authResult.status` alone.
AuthRejectedByStatus(ar) == Has(ar, "status")

\* Line 466, `authResult.error` as a condition.
AuthRejected(ar) == Has(ar, "error") /\ Truthy(ar.error)

\* A variant of lines 464-469 whose rejection branch does not return.
AuthCheckFallsThrough ==
  /\ pc = "auth_check"
  /\ IF IsNull(authResult)
       THEN Caught("Cannot read properties of null (reading 'error')")
       ELSE result' = result /\ pc' = "profile_send"
  /\ UNCHANGED << pkFile, schedVars, address, nonceData, signData, authResult,
                  profileData, streakData, tasksResult, streakVars, taskVars,
                  cookieVars, inflight, calls, lastAuth, verifyError >>

\* Lines 464-469: reading `.error` of null throws; a truthy error is a
\* rejection; anything else goes on to the post-auth steps.
AuthCheck ==
  /\ pc = "auth_check"
  /\ IF IsNull(authResult)
       THEN Caught("Cannot read properties of null (reading 'error')")
       ELSE IF AuthRejected(authResult)
         THEN result' = [success |-> FALSE, address |-> address] /\ pc' = "acct_done"
         ELSE result' = result /\ pc' = "profile_send"
  /\ UNCHANGED << pkFile, schedVars, address, nonceData, signData, authResult,
                  profileData, streakData, tasksResult, streakVars, taskVars,
                  cookieVars, inflight, calls, lastAuth, verifyError >>

\* A variant of lines 472-473 that does not await getUserProfile.
GetUserProfileSendNotAwaited ==
  /\ pc = "profile_send"
  /\ Send("profile", Null)
  /\ calls' = Called("getUserProfile")
  /\ pc' = "streak_call"
  /\ UNCHANGED << pkFile, schedVars, acctVars, streakVars, taskVars, cookieVars, lastAuth, verifyError >>

\* Lines 472-473 and getUserProfile, lines 223-229.
GetUserProfileSend ==
  /\ pc = "profile_send"
  /\ Send("profile", Null)
  /\ calls' = Called("getUserProfile")
  /\ pc' = "profile_wait"
  /\ UNCHANGED << pkFile, schedVars, acctVars, streakVars, taskVars, cookieVars, lastAuth, verifyError >>

\* A 2xx body of GET /users/me: an object, or JSON null.
ProfileBodies == { [id |-> "id"], Null }

\* A variant of getUserProfile that saves the cookies after its response, as
\* getNonce and verifySignature do.
GetUserProfileResponseSavesCookies ==
  /\ pc = "profile_wait"
  /\ Awaited("profile")
  /\ \E body \in ProfileBodies, o \in SaveOutcomes :
       /\ profileData' = body
       /\ SaveCookies(o)
  /\ Receive("profile")
  /\ pc' = "streak_call"
  /\ UNCHANGED << pkFile, schedVars, address, nonceData, signData, authResult,
                  streakData, tasksResult, result, streakVars, taskVars,
                  calls, lastAuth, verifyError >>

\* getUserProfile, lines 231-234 and 235-242: the data is returned; reading a
\* field of a null body throws inside the try and the catch returns null.
GetUserProfileResponse ==
  /\ pc = "profile_wait"
  /\ Awaited("profile")
  /\ \E body \in ProfileBodies : profileData' = body
  /\ Receive("profile")
  /\ pc' = "streak_call"
  /\ UNCHANGED << pkFile, schedVars, address, nonceData, signData, authResult,
                  streakData, tasksResult, result, streakVars, taskVars, cookieVars,
                  calls, lastAuth, verifyError >>

\* A variant of getUserProfile whose catch throws the error again.
GetUserProfileFailsRethrown ==
  /\ pc = "profile_wait"
  /\ Awaited("profile")
  /\ \E e \in HttpErrors : Caught(ErrMessage(e))
  /\ profileData' = Null
  /\ Receive("profile")
  /\ UNCHANGED << pkFile, schedVars, address, nonceData, signData, authResult,
                  streakData, tasksResult, streakVars, taskVars, cookieVars,
                  calls, lastAuth, verifyError >>

\* getUserProfile, lines 235-242: the request fails and the catch returns null.
GetUserProfileFails ==
  /\ pc = "profile_wait"
  /\ Awaited("profile")
  /\ \E e \in HttpErrors : profileData' = Null
  /\ Receive("profile")
  /\ pc' = "streak_call"
  /\ UNCHANGED << pkFile, schedVars, address, nonceData, signData, authResult,
                  streakData, tasksResult, result, streakVars, taskVars, cookieVars,
                  calls, lastAuth, verifyError >>

\* -------------------------------------------------- updateStreakWithRetry
\* Lines 476-477 and 246-247: updateStreakWithRetry is called.
UpdateStreakWithRetry ==
  /\ pc = "streak_call"
  /\ attempts' = 0
  /\ streakData' = Null
  /\ streakCalls' = 0
  /\ streakOutcomes' = << >>
  /\ retryDelays' = 0
  /\ calls' = Called("updateStreakWithRetry")
  /\ pc' = "streak_loop"
  /\ UNCHANGED << pkFile, schedVars, address, nonceData, signData, authResult,
                  profileData, tasksResult, result, taskVars, cookieVars, inflight,
                  lastAuth, verifyError >>

\* A variant of line 249 that is off by one.
RetryCondInclusive(n) == n <= MAX_RETRY_ATTEMPTS

\* Line 249, the loop condition.
RetryCond(n) == n < MAX_RETRY_ATTEMPTS

\* Line 262, the validity test of a streak payload.
StreakValid(d) ==
  /\ ~IsNull(d)
  /\ d.streak # "undefined"
  /\ d.longestStreak # "undefined"
  /\ Truthy(d.lastVisitDate)

\* Lines 249-257: the loop condition holds and the POST is sent.
StreakSend ==
  /\ pc = "streak_loop"
  /\ RetryCond(attempts)
  /\ Send("streak", Null)
  /\ streakCalls' = streakCalls + 1
  /\ pc' = "streak_wait"
  /\ UNCHANGED << pkFile, schedVars, acctVars, attempts, streakOutcomes, retryDelays,
                  taskVars, cookieVars, calls, lastAuth, verifyError >>

\* Lines 268-273 and 282-286: an attempt failed; a further one follows a wait.
AttemptFailed(how) ==
  /\ attempts' = attempts + 1
  /\ pc' = IF RetryCond(attempts + 1) THEN "streak_delay" ELSE "streak_loop"
  /\ streakData' = streakData
  /\ streakOutcomes' = Append(streakOutcomes, [kind |-> how])

\* Lines 259-274: the response arrives; a valid payload ends the loop.
StreakResponse ==
  /\ pc = "streak_wait"
  /\ Awaited("streak")
  /\ \E body \in StreakBodies :
       IF StreakValid(body)
         THEN /\ streakData' = body
              /\ attempts' = attempts
              /\ streakOutcomes' = Append(streakOutcomes, [kind |-> "valid", body |-> body])
              /\ pc' = "streak_return"
         ELSE AttemptFailed("invalid")
  /\ Receive("streak")
  /\ UNCHANGED << pkFile, schedVars, address, nonceData, signData, authResult,
                  profileData, tasksResult, result, streakCalls, retryDelays,
                  taskVars, cookieVars, calls, lastAuth, verifyError >>

\* Lines 275-287: the request fails.
StreakFails ==
  /\ pc = "streak_wait"
  /\ Awaited("streak")
  /\ \E e \in HttpErrors : AttemptFailed("threw")
  /\ Receive("streak")
  /\ UNCHANGED << pkFile, schedVars, address, nonceData, signData, authResult,
                  profileData, tasksResult, result, streakCalls, retryDelays,
                  taskVars, cookieVars, calls, lastAuth, verifyError >>

\* Lines 272 and 285: await delay(RETRY_DELAY).
RetryDelay ==
  /\ pc = "streak_delay"
  /\ retryDelays' = retryDelays + 1
  /\ pc' = "streak_loop"
  /\ UNCHANGED << pkFile, schedVars, acctVars, attempts, streakCalls, streakOutcomes,
                  taskVars, cookieVars, inflight, calls, lastAuth, verifyError >>

\* A variant of lines 290-294 that throws when no attempt succeeded.
StreakExhaustedThrows ==
  /\ pc = "streak_loop"
  /\ ~RetryCond(attempts)
  /\ Caught("Failed to update streak")
  /\ UNCHANGED << pkFile, schedVars, address, nonceData, signData, authResult,
                  profileData, streakData, tasksResult, streakVars, taskVars,
                  cookieVars, inflight, calls, lastAuth, verifyError >>

\* Lines 249 and 290-294: the loop condition fails; null is returned.
StreakExhausted ==
  /\ pc = "streak_loop"
  /\ ~RetryCond(attempts)
  /\ pc' = "streak_return"
  /\ UNCHANGED << pkFile, schedVars, acctVars, streakVars, taskVars, cookieVars,
                  inflight, calls, lastAuth, verifyError >>

\* ----------------------------------------------------- processSocialTasks
\* Lines 480-481, 379-382 and getSocialTasks, lines 323-329: streakData has
\* been returned to processAccount; processSocialTasks is called and asks for
\* the task list.
GetSocialTasksSend ==
  /\ pc = "streak_return"
  /\ Send("tasks", Null)
  /\ calls' = Called("processSocialTasks")
  /\ attempts' = 0
  /\ streakCalls' = 0
  /\ streakOutcomes' = << >>
  /\ retryDelays' = 0
  /\ tasks' = << >>
  /\ t' = 0
  /\ completedCount' = 0
  /\ verified' = << >>
  /\ verifyOks' = << >>
  /\ tasksFetch' = "none"
  /\ pc' = "tasks_wait"
  /\ UNCHANGED << pkFile, schedVars, acctVars, cookieVars, lastAuth, verifyError >>

\* A variant of line 389 without the filter.
AllTasks(ts) == ts

\* Line 389.
PendingTasks(ts) == SelectSeq(ts, LAMBDA task : ~task.completed)

\* Lines 424-429.
TaskReport(ts, count) ==
  [ success |-> TRUE,
    completed |-> count,
    total |-> Len(ts),
    alreadyCompleted |-> Len(ts) - Len(PendingTasks(ts)) ]

\* Lines 383-397: what processSocialTasks does with the array it got.
TaskListTaken(ts) ==
  IF Len(ts) = 0
    THEN /\ tasksResult' = [success |-> FALSE, completed |-> 0, total |-> 0]
         /\ tasks' = ts
         /\ pc' = "tasks_return"
    ELSE IF Len(PendingTasks(ts)) = 0
      THEN /\ tasksResult' = [ success |-> TRUE, completed |-> 0, total |-> Len(ts),
                                alreadyCompleted |-> Len(ts) ]
           /\ tasks' = ts
           /\ pc' = "tasks_return"
      ELSE /\ tasksResult' = tasksResult
           /\ tasks' = ts
           /\ pc' = "task_verify_send"

\* getSocialTasks, lines 331-340: the array arrives and is returned.
GetSocialTasksResponse ==
  /\ pc = "tasks_wait"
  /\ Awaited("tasks")
  /\ \E ts \in TaskLists : TaskListTaken(ts)
  /\ tasksFetch' = "answered"
  /\ Receive("tasks")
  /\ UNCHANGED << pkFile, schedVars, address, nonceData, signData, authResult,
                  profileData, streakData, result, streakVars, t, completedCount,
                  verified, verifyOks, cookieVars, calls, lastAuth, verifyError >>

\* getSocialTasks, lines 341-348: the request fails, or the body is not an
\* array of objects and reading it throws; the catch returns [].
GetSocialTasksFails ==
  /\ pc = "tasks_wait"
  /\ Awaited("tasks")
  /\ \E cause \in {"http error", "malformed body"} : TaskListTaken(<< >>)
  /\ tasksFetch' = "failed"
  /\ Receive("tasks")
  /\ UNCHANGED << pkFile, schedVars, address, nonceData, signData, authResult,
                  profileData, streakData, result, streakVars, t, completedCount,
                  verified, verifyOks, cookieVars, calls, lastAuth, verifyError >>

\* A variant of line 400 that walks `tasks` instead of `pendingTasks`.
VerifyTaskSendOverAllTasks ==
  /\ pc = "task_verify_send"
  /\ LET task == tasks[t + 1]
     IN  /\ Send("taskVerify", [taskId |-> task.id])
         /\ verified' = Append(verified, task.id)
  /\ calls' = Called("verifyTask")
  /\ pc' = "task_verify_wait"
  /\ UNCHANGED << pkFile, schedVars, acctVars, streakVars, tasks, t, completedCount,
                  verifyOks, tasksFetch, cookieVars, lastAuth, verifyError >>

\* Lines 400-408 and verifyTask, lines 354-360: the next pending task.
VerifyTaskSend ==
  /\ pc = "task_verify_send"
  /\ LET task == PendingTasks(tasks)[t + 1]
     IN  /\ Send("taskVerify", [taskId |-> task.id])
         /\ verified' = Append(verified, task.id)
  /\ calls' = Called("verifyTask")
  /\ pc' = "task_verify_wait"
  /\ UNCHANGED << pkFile, schedVars, acctVars, streakVars, tasks, t, completedCount,
                  verifyOks, tasksFetch, cookieVars, lastAuth, verifyError >>

\* Lines 410-420 and 400: verifyTask returned `ok`; the loop goes on to the
\* next pending task or ends with the report.
TaskVerified(ok) ==
  LET count == IF ok THEN completedCount + 1 ELSE completedCount
  IN  /\ completedCount' = count
      /\ t' = t + 1
      /\ verifyOks' = Append(verifyOks, ok)
      /\ IF t + 1 < Len(PendingTasks(tasks))
           THEN /\ tasksResult' = tasksResult
                /\ pc' = "task_verify_send"
           ELSE /\ tasksResult' = TaskReport(tasks, count)
                /\ pc' = "tasks_return"

\* verifyTask, line 365.
VerifySucceeded(body) == ~IsNull(body) /\ body.success = "true"

\* verifyTask, lines 362-365 and 366-373: the response arrives; reading a
\* field of a null body throws and the catch returns false.
VerifyTaskResponse ==
  /\ pc = "task_verify_wait"
  /\ Awaited("taskVerify")
  /\ \E body \in TaskVerifyBodies : TaskVerified(VerifySucceeded(body))
  /\ Receive("taskVerify")
  /\ UNCHANGED << pkFile, schedVars, address, nonceData, signData, authResult,
                  profileData, streakData, result, streakVars, tasks, verified,
                  tasksFetch, cookieVars, calls, lastAuth, verifyError >>

\* A variant of verifyTask whose catch throws the error again: the catch of
\* processSocialTasks, lines 430-433, ends the loop.
VerifyTaskFailsAborts ==
  /\ pc = "task_verify_wait"
  /\ Awaited("taskVerify")
  /\ \E e \in HttpErrors : tasksResult' = [success |-> FALSE, error |-> ErrMessage(e)]
  /\ Receive("taskVerify")
  /\ pc' = "tasks_return"
  /\ UNCHANGED << pkFile, schedVars, address, nonceData, signData, authResult,
                  profileData, streakData, result, streakVars, taskVars,
                  cookieVars, calls, lastAuth, verifyError >>

\* verifyTask, lines 366-373: the request fails and the catch returns false.
VerifyTaskFails ==
  /\ pc = "task_verify_wait"
  /\ Awaited("taskVerify")
  /\ \E e \in HttpErrors : TaskVerified(FALSE)
  /\ Receive("taskVerify")
  /\ UNCHANGED << pkFile, schedVars, address, nonceData, signData, authResult,
                  profileData, streakData, result, streakVars, tasks, verified,
                  tasksFetch, cookieVars, calls, lastAuth, verifyError >>

\* ------------------------------------------------------ getUserExperience
\* Lines 484-485 and getUserExperience, lines 299-305: tasksResult has been
\* returned to processAccount; the experience request is sent.
GetUserExperienceSend ==
  /\ pc = "tasks_return"
  /\ Send("exp", Null)
  /\ calls' = Called("getUserExperience")
  /\ tasks' = << >>
  /\ t' = 0
  /\ completedCount' = 0
  /\ verified' = << >>
  /\ verifyOks' = << >>
  /\ tasksFetch' = "none"
  /\ pc' = "exp_wait"
  /\ UNCHANGED << pkFile, schedVars, acctVars, streakVars, cookieVars, lastAuth, verifyError >>

\* Lines 487-494.
AccountResult(expData) ==
  [ success |-> TRUE,
    address |-> address,
    profile |-> profileData,
    streak |-> streakData,
    exp |-> expData,
    tasks |-> tasksResult ]

\* A 2xx body of GET /users/exp: an object, or JSON null.
ExpBodies == { [exp |-> "exp"], Null }

\* getUserExperience, lines 307-309, and lines 487-494: response.data is
\* returned and processAccount returns the aggregated result.
GetUserExperienceResponse ==
  /\ pc = "exp_wait"
  /\ Awaited("exp")
  /\ \E body \in ExpBodies : result' = AccountResult(body)
  /\ Receive("exp")
  /\ pc' = "acct_done"
  /\ UNCHANGED << pkFile, schedVars, address, nonceData, signData, authResult,
                  profileData, streakData, tasksResult, streakVars, taskVars,
                  cookieVars, calls, lastAuth, verifyError >>

\* A variant of lines 310-317 whose catch throws the error again.
GetUserExperienceFailsRethrown ==
  /\ pc = "exp_wait"
  /\ Awaited("exp")
  /\ \E e \in HttpErrors : Caught(ErrMessage(e))
  /\ Receive("exp")
  /\ UNCHANGED << pkFile, schedVars, address, nonceData, signData, authResult,
                  profileData, streakData, tasksResult, streakVars, taskVars,
                  cookieVars, calls, lastAuth, verifyError >>

\* getUserExperience, lines 310-317: the request fails and the catch returns
\* null.
GetUserExperienceFails ==
  /\ pc = "exp_wait"
  /\ Awaited("exp")
  /\ \E e \in HttpErrors : result' = AccountResult(Null)
  /\ Receive("exp")
  /\ pc' = "acct_done"
  /\ UNCHANGED << pkFile, schedVars, address, nonceData, signData, authResult,
                  profileData, streakData, tasksResult, streakVars, taskVars,
                  cookieVars, calls, lastAuth, verifyError >>

\* ---------------------------------------------------------- specification
AccountNext ==
  \/ Main
  \/ Sleep
  \/ LoadCookies
  \/ InitializeSessionSend
  \/ InitializeSessionDone
  \/ ReadPrivateKeys
  \/ ReadPrivateKeysFails
  \/ InvokeProcessAccount
  \/ Summarize
  \/ PushResult
  \/ DeriveIdentity
  \/ GetNonceSend
  \/ GetNonceResponse
  \/ GetNonceFails
  \/ Sign
  \/ SignFails
  \/ VerifySignatureSend
  \/ VerifySignatureResponse
  \/ VerifySignatureFails
  \/ AuthCheck
  \/ GetUserProfileSend
  \/ GetUserProfileResponse
  \/ GetUserProfileFails
  \/ UpdateStreakWithRetry
  \/ StreakSend
  \/ StreakResponse
  \/ StreakFails
  \/ RetryDelay
  \/ StreakExhausted
  \/ GetSocialTasksSend
  \/ GetSocialTasksResponse
  \/ GetSocialTasksFails
  \/ VerifyTaskSend
  \/ VerifyTaskResponse
  \/ VerifyTaskFails
  \/ GetUserExperienceSend
  \/ GetUserExperienceResponse
  \/ GetUserExperienceFails

Next ==
  \/ AccountNext
  \/ InterAccountDelay

\* The whole program, over every wallet file of up to MaxWallets keys.
Spec == Init /\ [][Next]_vars

\* The whole program when every request is answered or fails, every delay
\* ends and every statement that can run does run.  The wallet files are
\* those in which every key but the last is malformed: the runs of
\* processAccount before the last one end at line 447, the last one is
\* unconstrained.
OnlyLastKeyMayBeValid(keys) == \A k \in 1..(Len(keys) - 1) : ~keys[k].valid
InitFair == Init /\ OnlyLastKeyMayBeValid(ParsePrivateKeys(pkFile))
FairSpec == InitFair /\ [][Next]_vars /\ WF_vars(Next)

\* The program run on a wallet file of one key: every behaviour of one
\* processAccount call and of the calls it makes.
InitAccount == Init /\ Len(ParsePrivateKeys(pkFile)) = 1
SpecAccount == InitAccount /\ [][AccountNext]_vars

\* ================================================================ claims
PostAuthCallees == {"getUserProfile", "updateStreakWithRetry", "processSocialTasks",
                    "verifyTask", "getUserExperience"}

\* The statements of processAccount and of the calls it makes.
AccountPcs == {"derive", "nonce_send", "nonce_wait", "sign", "verify_send",
               "verify_wait", "auth_check", "profile_send", "profile_wait",
               "streak_call", "streak_loop", "streak_wait", "streak_delay",
               "streak_return", "tasks_wait", "task_verify_send",
               "task_verify_wait", "tasks_return", "exp_wait", "acct_done"}

NoPostAuthWork ==
  /\ \A c \in PostAuthCallees : calls[c] = 0
  /\ \A r \in inflight : r.kind \notin PostAuthKinds

RejectedOutcome ==
  /\ pc \in {"auth_check", "acct_done"}
  /\ NoPostAuthWork
  /\ pc = "acct_done" => result = [success |-> FALSE, address |-> AddressOf(privateKeys[i + 1])]

\* C1 as stated: whenever verifySignature returned a result that carries an
\* `error` field, processAccount returns {success:false, address} and makes
\* no profile, streak, task or experience call in that run.
C1_AnyErrorFieldRejects ==
  Has(authResult, "error") => RejectedOutcome

\* C1, amended: whenever verifySignature returned a result whose `error`
\* field is truthy, processAccount returns {success:false, address} and makes
\* no profile, streak, task or experience call in that run.
C1_TruthyErrorRejects ==
  (Has(authResult, "error") /\ Truthy(authResult.error)) => RejectedOutcome

C1_Witness ==
  /\ pc = "acct_done"
  /\ Has(authResult, "error")
  /\ Truthy(authResult.error)
  /\ calls["verifySignature"] = 1
  /\ result = [success |-> FALSE, address |-> address]

ThrewBeforePostAuth ==
  /\ calls["getUserExperience"] = 0
  /\ ~(Has(authResult, "error") /\ Truthy(authResult.error))

\* C2: whatever the nonce, sign, verify, profile, streak, task and experience
\* steps do, every processAccount call that was made returns a record with a
\* boolean `success` to processAllAccounts (no call is left without a
\* result), and when a step threw the record is {success:false, error}.
C2_AlwaysReturnsRecord ==
  /\ pc \in AccountPcs => Len(invoked) = Len(results) + 1
  /\ pc \notin AccountPcs => Len(invoked) = Len(results)
  /\ pc = "acct_done" =>
       /\ Has(result, "success")
       /\ result.success \in BOOLEAN
       /\ ThrewBeforePostAuth =>
            /\ DOMAIN result = {"success", "error"}
            /\ result.success = FALSE
       /\ calls["getUserExperience"] = 1 =>
            /\ DOMAIN result = {"success", "address", "profile", "streak", "exp", "tasks"}
            /\ result.success = TRUE

C2_Witness ==
  /\ pc = "acct_done"
  /\ calls["verifySignature"] = 1
  /\ ThrewBeforePostAuth
  /\ DOMAIN result = {"success", "error"}

ProfileStepFailed ==
  /\ pc \in AccountPcs \ {"profile_wait"}
  /\ calls["getUserProfile"] = 1
  /\ profileData = Null

\* C3: when authentication succeeded and the profile step failed, the streak,
\* task and experience steps still run and processAccount returns a result
\* record with success true (and a null profile).
C3_ProfileFailureIsNotFatal ==
  ProfileStepFailed =>
    /\ pc \in {"streak_call", "streak_loop", "streak_wait", "streak_delay",
               "streak_return", "tasks_wait", "task_verify_send",
               "task_verify_wait", "tasks_return", "exp_wait", "acct_done"}
    /\ pc = "acct_done" =>
         /\ DOMAIN result = {"success", "address", "profile", "streak", "exp", "tasks"}
         /\ result.success = TRUE
         /\ result.profile = Null
         /\ calls["updateStreakWithRetry"] = 1
         /\ calls["processSocialTasks"] = 1
         /\ calls["getUserExperience"] = 1

C3_Witness ==
  /\ pc = "acct_done"
  /\ ProfileStepFailed
  /\ result.success = TRUE
  /\ calls["getUserExperience"] = 1

StreakPcs == {"streak_loop", "streak_wait", "streak_delay", "streak_return"}

\* The position of the first valid payload among the outcomes, 0 when none is.
FirstValid(outcomes) ==
  IF \E k \in 1..Len(outcomes) : outcomes[k].kind = "valid"
    THEN CHOOSE k \in 1..Len(outcomes) :
           /\ outcomes[k].kind = "valid"
           /\ \A j \in 1..(k - 1) : outcomes[j].kind # "valid"
    ELSE 0

\* C4: over every sequence of streak outcomes (valid payload, invalid payload,
\* thrown error) updateStreakWithRetry makes exactly min(k, MAX_RETRY_ATTEMPTS)
\* calls, k being the position of the first valid payload; it returns that
\* payload when k <= MAX_RETRY_ATTEMPTS and null after exactly
\* MAX_RETRY_ATTEMPTS calls otherwise.
C4_StreakCallCount ==
  pc \in StreakPcs =>
    /\ streakCalls <= MAX_RETRY_ATTEMPTS
    /\ Len(streakOutcomes) = IF pc = "streak_wait" THEN streakCalls - 1 ELSE streakCalls
    /\ pc # "streak_return" => FirstValid(streakOutcomes) = 0
    /\ pc = "streak_return" =>
         LET k == FirstValid(streakOutcomes)
         IN  IF k # 0
               THEN /\ streakCalls = k
                    /\ streakData = streakOutcomes[k].body
               ELSE /\ streakCalls = MAX_RETRY_ATTEMPTS
                    /\ streakData = Null

\* invalid, invalid, valid: the valid payload after exactly three calls.
C4_Witness ==
  /\ pc = "streak_return"
  /\ Len(streakOutcomes) = 3
  /\ streakOutcomes[1].kind = "invalid"
  /\ streakOutcomes[2].kind = "invalid"
  /\ streakOutcomes[3].kind = "valid"
  /\ streakData = streakOutcomes[3].body
  /\ streakCalls = 3

StreakCameBackNull ==
  /\ pc \in AccountPcs \ StreakPcs
  /\ calls["updateStreakWithRetry"] = 1
  /\ streakData = Null

\* C5: updateStreakWithRetry never raises: when every attempt threw or came
\* back invalid it returns null, and processAccount goes on to
\* processSocialTasks and getUserExperience and returns success true with a
\* null streak.
C5_StreakExhaustionIsNotFatal ==
  /\ (pc = "streak_return" /\ FirstValid(streakOutcomes) = 0) =>
       /\ streakData = Null
       /\ \A k \in 1..Len(streakOutcomes) : streakOutcomes[k].kind \in {"invalid", "threw"}
  /\ (pc = "acct_done" /\ calls["updateStreakWithRetry"] = 1) => result.success = TRUE
  /\ StreakCameBackNull =>
       /\ pc \in {"tasks_wait", "task_verify_send", "task_verify_wait", "tasks_return",
                  "exp_wait", "acct_done"}
       /\ calls["processSocialTasks"] = 1
       /\ pc = "acct_done" =>
            /\ result.success = TRUE
            /\ result.streak = Null
            /\ calls["getUserExperience"] = 1

C5_Witness ==
  /\ pc = "acct_done"
  /\ StreakCameBackNull
  /\ result.success = TRUE
  /\ result.streak = Null
  /\ calls["processSocialTasks"] = 1
  /\ calls["getUserExperience"] = 1

TaskLoopPcs == {"task_verify_send", "task_verify_wait", "tasks_return"}

\* The ids of the tasks whose `completed` flag is not set, in list order.
RECURSIVE NotCompletedIds(_)
NotCompletedIds(ts) ==
  IF ts = << >> THEN << >>
  ELSE (IF Head(ts).completed THEN << >> ELSE << Head(ts).id >>)
         \o NotCompletedIds(Tail(ts))

CountTrue(bs) == Cardinality({ k \in 1..Len(bs) : bs[k] })

\* C6: for a task list with at least one pending task, processSocialTasks
\* calls verifyTask once per pending task and for no completed task, in the
\* pending tasks' list order, and reports completed = the number of
\* verifications that returned success, total = the number of tasks and
\* alreadyCompleted = total minus the number of pending tasks.
C6_VerifiesEachPendingTaskOnce ==
  (pc \in TaskLoopPcs /\ NotCompletedIds(tasks) # << >>) =>
    LET ids == NotCompletedIds(tasks)
    IN  /\ Len(verified) <= Len(ids)
        /\ verified = SubSeq(ids, 1, Len(verified))
        /\ calls["verifyTask"] = Len(verified)
        /\ pc = "tasks_return" =>
             /\ verified = ids
             /\ tasksResult = [ success |-> TRUE,
                                completed |-> CountTrue(verifyOks),
                                total |-> Len(tasks),
                                alreadyCompleted |-> Len(tasks) - Len(ids) ]

C6_Witness ==
  /\ pc = "tasks_return"
  /\ Len(tasks) = 2
  /\ tasks[1].completed
  /\ ~tasks[2].completed
  /\ verified = << 2 >>
  /\ verifyOks = << TRUE >>
  /\ tasksResult = [success |-> TRUE, completed |-> 1, total |-> 2, alreadyCompleted |-> 1]

\* C7: a verifyTask call that fails with an HTTP error or returns a
\* non-success response counts as not completed for that task only: the loop
\* goes on to every later pending task and returns a report with success
\* true.
C7_FailedVerificationIsLocal ==
  (pc \in TaskLoopPcs /\ NotCompletedIds(tasks) # << >>) =>
    LET n == Len(NotCompletedIds(tasks))
    IN  /\ pc = "task_verify_send" => Len(verifyOks) = Len(verified) /\ Len(verified) < n
        /\ pc = "task_verify_wait" => Len(verifyOks) + 1 = Len(verified) /\ Len(verified) <= n
        /\ pc = "tasks_return" =>
             /\ Len(verifyOks) = n
             /\ tasksResult.success = TRUE
             /\ tasksResult.completed = n - Cardinality({ k \in 1..n : ~verifyOks[k] })

\* The first verification failed, the second was still made and counted.
C7_Witness ==
  /\ pc = "tasks_return"
  /\ verifyOks = << FALSE, TRUE >>
  /\ Len(verified) = 2
  /\ tasksResult.success = TRUE
  /\ tasksResult.completed = 1

\* ------------------------------------------------------------------- C8
InOrder(n) == [k \in 1..n |-> k]

\* The result at position k is of the wallet at position k: a result that
\* carries an address carries that wallet's address, and a result of a
\* malformed key is a failure.
ResultOfWallet(r, k) ==
  /\ Has(r, "address") => r.address = AddressOf(privateKeys[k])
  /\ ~privateKeys[k].valid => ~r.success

\* C8: in a cycle over N wallets whose key list was read, processAccount is
\* invoked exactly once per wallet, in list order, whatever the earlier
\* wallets' outcomes; a result enters the list only as the value returned by
\* the wallet's processAccount call, at its position; at the end the list has
\* N entries and the summary's success and failure counts add up to N.
C8_OncePerWalletInOrder ==
  /\ [](/\ invoked = InOrder(Len(invoked))
        /\ Len(invoked) <= Len(privateKeys)
        /\ \A k \in 1..Len(results) : ResultOfWallet(results[k], k)
        /\ (pc = "sleep" /\ ret = "true") =>
             /\ Len(results) = Len(privateKeys)
             /\ invoked = InOrder(Len(privateKeys))
             /\ summary.total = Len(privateKeys)
             /\ summary.successful + summary.failed = Len(privateKeys))
  /\ [][results' # results =>
          \/ results' = << >>
          \/ /\ pc = "acct_done"
             /\ results' = Append(results, result)
             /\ Len(results') = Len(invoked)
             /\ invoked[Len(invoked)] = Wallet]_vars

\* A cycle over two wallets ended; the first wallet failed, the second did not.
C8_Witness ==
  /\ pc = "sleep"
  /\ ret = "true"
  /\ Len(privateKeys) = 2
  /\ Len(results) = 2
  /\ ~results[1].success
  /\ results[2].success

\* ------------------------------------------------------------------- C9
WalletKinds == AuthKinds \cup PostAuthKinds

\* C9: at most one request is in flight; a request of a wallet is in flight
\* only when every wallet before it in the list has had its result returned
\* and pushed, and processAccount was invoked for the wallets in list order.
C9_SequentialNoOverlap ==
  /\ Cardinality(inflight) <= 1
  /\ \A r \in inflight :
       r.kind \in WalletKinds =>
         /\ r.wallet = Len(results) + 1
         /\ invoked = InOrder(r.wallet)
         /\ pc \notin {"acct_done", "inter_delay", "loop", "sleep", "cycle"}

\* A request of the second wallet is in flight after the first wallet's
\* result was pushed.
C9_Witness ==
  /\ Len(results) = 1
  /\ \E r \in inflight : r.kind \in WalletKinds /\ r.wallet = 2

\* ------------------------------------------------------------------ C10
\* A post-auth request in flight belongs to the wallet being processed, whose
\* own verify call has returned, and no nonce or verify request of another
\* wallet was sent since.
AfterOwnVerify(r) ==
  /\ r.wallet = Wallet
  /\ lastAuth = r.wallet
  /\ calls["verifySignature"] = 1
  /\ ~IsNull(authResult)
  /\ \A q \in inflight : q.kind \notin AuthKinds

\* C10: every post-auth request is issued only after the wallet's own verify
\* returned without an `error` field, and before any nonce or verify request
\* of another wallet.
C10_PostAuthOnlyWithoutErrorField ==
  \A r \in inflight :
    r.kind \in PostAuthKinds =>
      AfterOwnVerify(r) /\ ~Has(authResult, "error")

\* C10 with the test line 466 makes: every post-auth request is issued only
\* after the wallet's own verify returned without a truthy `error` field, and
\* before any nonce or verify request of another wallet.
C10_PostAuthOnlyWithoutTruthyError ==
  \A r \in inflight :
    r.kind \in PostAuthKinds =>
      AfterOwnVerify(r) /\ ~(Has(authResult, "error") /\ Truthy(authResult.error))

\* A post-auth request of the second wallet is in flight, after the first
\* wallet was authenticated and finished.
C10_Witness ==
  /\ Len(results) = 1
  /\ results[1].success
  /\ \E r \in inflight : r.kind \in PostAuthKinds /\ r.wallet = 2 /\ lastAuth = 2

\* ------------------------------------------------------------------ C11
\* The verify request of this run failed with status 500 and a body.
VerifyFailed500WithBody ==
  /\ pc \in AccountPcs
  /\ ~IsNull(verifyError)
  /\ verifyError.hasResponse
  /\ verifyError.status = 500
  /\ Truthy(verifyError.data)

\* The verify request of this run failed in another way: another status, a
\* 500 without a body, or no response.
VerifyFailedOtherwise ==
  /\ pc \in AccountPcs
  /\ ~IsNull(verifyError)
  /\ ~(verifyError.hasResponse /\ verifyError.status = 500 /\ Truthy(verifyError.data))

\* C11: when the verify request fails with status 500 and a body,
\* verifySignature returns {error, status} and processAccount returns
\* {success:false, address}; when it fails in any other way the error reaches
\* the catch of processAccount, which returns {success:false, error}; no
\* post-auth call is made in either case.
C11_Verify500IsRejectionOtherFailuresThrow ==
  /\ VerifyFailed500WithBody =>
       /\ authResult = [kind |-> "object", error |-> verifyError.data,
                        status |-> verifyError.status]
       /\ pc \in {"auth_check", "acct_done"}
       /\ pc = "acct_done" => result = [success |-> FALSE, address |-> address]
       /\ NoPostAuthWork
  /\ VerifyFailedOtherwise =>
       /\ IsNull(authResult)
       /\ pc = "acct_done"
       /\ result = [success |-> FALSE, error |-> ErrMessage(verifyError)]
       /\ NoPostAuthWork

\* Both cases have happened: a wallet was returned as rejected after a 500
\* with a body.
C11_Witness ==
  /\ pc = "acct_done"
  /\ VerifyFailed500WithBody
  /\ result = [success |-> FALSE, address |-> AddressOf(privateKeys[Wallet])]

\* A wallet was returned as failed after a 500 without a body.
C11_WitnessThrown ==
  /\ pc = "acct_done"
  /\ VerifyFailedOtherwise
  /\ verifyError.hasResponse
  /\ verifyError.status = 500
  /\ Has(result, "error")

\* ------------------------------------------------------------------ C12
\* The nonce values a nonce response carries in one of the three tolerated
\* shapes: the bare string, the `nonce` field, the `data.nonce` field.  An
\* empty string is not a nonce.
NoncesCarried(nd) ==
  IF IsNull(nd) THEN {}
  ELSE IF nd.isString THEN {nd.str} \cap NonceValues
  ELSE {nd.nonce, nd.dataNonce} \cap NonceValues

\* What follows `Nonce: ` in the message, as the claim has it.
ClaimedNonces(nd) ==
  IF NoncesCarried(nd) = {} THEN {"unknown-nonce"} ELSE NoncesCarried(nd)

\* C12: when signMessage returns, the message it built holds after `Nonce: `
\* the nonce value the response carried in one of the three shapes, and the
\* sentinel `unknown-nonce` when the response carried none.
C12_MessageHoldsNonceOrSentinel ==
  [][(pc = "sign" /\ pc' = "verify_send") =>
       signData'.message.nonce \in ClaimedNonces(nonceData)]_vars

\* The same for the responses that are not an empty string.
C12_ExceptEmptyString ==
  [][(pc = "sign" /\ pc' = "verify_send" /\ nonceData # [isString |-> TRUE, str |-> ""]) =>
       signData'.message.nonce \in ClaimedNonces(nonceData)]_vars

\* ------------------------------------------------------------------ C13
\* The cycle whose key read failed invoked no processAccount and produced no
\* summary.
CycleAborted ==
  /\ invoked = << >>
  /\ results = << >>
  /\ summary = Null
  /\ \A r \in inflight : r.kind \notin WalletKinds

\* C13 as stated: when reading the wallet list fails, no processAccount is
\* invoked and no summary is produced in that cycle, and the failure leaves
\* processAllAccounts as a failure: the call does not return a value to its
\* caller.
C13_KeyReadFailureLeavesScheduler ==
  keysRead = "failed" => (CycleAborted /\ ret \notin {"true", "false"})

\* C13, amended: when reading the wallet list fails, no processAccount is
\* invoked and no summary is produced in that cycle; the failure is caught in
\* processAllAccounts, which returns false to its caller, and false is
\* returned for no other reason.
C13_KeyReadFailureAbortsCycle ==
  /\ keysRead = "failed" => (CycleAborted /\ pc \in {"sleep", "cycle"} /\ ret = "false")
  /\ (pc = "sleep" /\ ret = "false") => keysRead = "failed"

\* A cycle ended on a failed key read although the file holds two keys.
C13_Witness ==
  /\ keysRead = "failed"
  /\ pc = "sleep"
  /\ ret = "false"
  /\ Len(ParsePrivateKeys(pkFile)) = 2

\* ------------------------------------------------------------------ C14
\* C14: when every network call and delay eventually returns, the driver
\* loop repeats forever: again and again a cycle starts and again and again a
\* cycle has ended (processAllAccounts returned true or false) and main is at
\* its sleep.  So every cycle that starts ends, every sleep is followed by
\* the start of the next cycle, and the process never leaves the loop: no
\* statement of the loop throws into the catch of main, and process.exit(1)
\* is not reached.
C14_DriverLoopRepeatsForever ==
  /\ []<>(pc = "cycle")
  /\ []<>(pc = "sleep")

\* A cycle that returned false has been slept on and the next cycle starts.
C14_Witness ==
  /\ pc = "cycle"
  /\ keysRead = "failed"

\* ------------------------------------------------------------------ C15
AuthCallees == {"getNonce", "signMessage", "verifySignature"}
TransportMessages == { ErrMessage(e) : e \in HttpErrors }

\* The nonce request of this run was sent and failed: the run has left
\* getNonce without a response, so without a saveCookies call.
NonceFetchFailed ==
  /\ pc \in AccountPcs \ {"nonce_wait"}
  /\ calls["getNonce"] = 1
  /\ saves = << >>

\* C15: in one processAccount run each of getNonce, signMessage and
\* verifySignature is called at most once; signMessage is called only after
\* the nonce request was answered; verifySignature is called only after
\* signMessage returned, and the request it sends holds the message and the
\* signature of that signMessage result, the signature being this wallet's
\* over that message; after a failed nonce request the run returns
\* {success:false, error} without a sign, verify or post-auth call.
C15_AuthStepsOnceInOrder ==
  /\ \A c \in AuthCallees : calls[c] <= 1
  /\ calls["signMessage"] = 1 =>
       /\ calls["getNonce"] = 1
       /\ Len(saves) >= 1
  /\ calls["verifySignature"] = 1 =>
       /\ calls["signMessage"] = 1
       /\ pc \in AccountPcs => ~(Has(result, "error") /\ result.error = "signing failed")
  /\ \A r \in inflight :
       /\ r.kind = "nonce" => (pc = "nonce_wait" /\ calls["signMessage"] = 0)
       /\ r.kind = "verify" =>
            /\ pc = "verify_wait"
            /\ r.body = [message |-> signData.message, signature |-> signData.signature]
            /\ r.body.signature = [signer |-> privateKeys[Wallet].id, signed |-> r.body.message]
            /\ r.body.message.address = address
  /\ NonceFetchFailed =>
       /\ pc = "acct_done"
       /\ DOMAIN result = {"success", "error"}
       /\ result.success = FALSE
       /\ result.error \in TransportMessages
       /\ calls["signMessage"] = 0
       /\ calls["verifySignature"] = 0
       /\ NoPostAuthWork

\* The verify request is in flight with what signMessage produced from a
\* fetched nonce.
C15_Witness ==
  /\ pc = "verify_wait"
  /\ \E r \in inflight : r.kind = "verify" /\ r.body.message.nonce \in NonceValues
  /\ calls["getNonce"] = 1
  /\ calls["signMessage"] = 1
  /\ calls["verifySignature"] = 1

\* A run ended on a failed nonce request.
C15_WitnessNonceFailed ==
  /\ pc = "acct_done"
  /\ NonceFetchFailed

\* ------------------------------------------------------------------ C16
PostAuthSteps == <<"getUserProfile", "updateStreakWithRetry", "processSocialTasks",
                   "getUserExperience">>
StepOfKind == [profile |-> 1, streak |-> 2, tasks |-> 3, taskVerify |-> 3, exp |-> 4]

\* The post-auth steps are called at most once each, each after the one
\* before it, and a request of a step is in flight only before the next step
\* is called; updateStreakWithRetry returns after 1 to MAX_RETRY_ATTEMPTS
\* POSTs.
PostAuthStepsInOrder ==
  /\ \A s \in 1..4 : calls[PostAuthSteps[s]] <= 1
  /\ \A s \in 2..4 : calls[PostAuthSteps[s]] = 1 => calls[PostAuthSteps[s - 1]] = 1
  /\ \A r \in inflight :
       r.kind \in PostAuthKinds =>
         /\ calls[PostAuthSteps[StepOfKind[r.kind]]] = 1
         /\ \A s \in (StepOfKind[r.kind] + 1)..4 : calls[PostAuthSteps[s]] = 0
  /\ pc = "streak_return" => streakCalls \in 1..MAX_RETRY_ATTEMPTS

\* What each field of a successful result can hold: the step's value, or
\* null (profile, streak, exp) or a failed report (tasks) when the step failed.
ResultFieldsAreStepValues ==
  /\ DOMAIN result = {"success", "address", "profile", "streak", "exp", "tasks"}
  /\ result.address = AddressOf(privateKeys[Wallet])
  /\ result.profile = profileData
  /\ result.streak = streakData
  /\ result.tasks = tasksResult
  /\ IsNull(result.profile) \/ Has(result.profile, "id")
  /\ IsNull(result.streak) \/ Truthy(result.streak.lastVisitDate)
  /\ IsNull(result.exp) \/ Has(result.exp, "exp")
  /\ result.tasks.success \in BOOLEAN

\* A run of processAccount that has called getUserProfile returns success:
\* true whatever the four steps did, and a success:true result comes only
\* from such a run, after a verify result accepted by `verifyAccepted`.
SuccessResult(verifyAccepted) ==
  /\ PostAuthStepsInOrder
  /\ pc = "acct_done" =>
       /\ calls["getUserProfile"] = 1 <=> result.success
       /\ result.success =>
            /\ \A s \in 1..4 : calls[PostAuthSteps[s]] = 1
            /\ calls["verifySignature"] = 1
            /\ verifyAccepted
            /\ ResultFieldsAreStepValues

\* C16 as stated: every success:true result carries the wallet address and
\* comes after profile, streak update (1 to MAX_RETRY_ATTEMPTS calls), task
\* loop and experience ran once each in this order, after a verify result
\* without an `error` field; a failed step leaves success true and only its
\* own field null or marked failed.
C16_SuccessAfterVerifyWithoutErrorField ==
  SuccessResult(~IsNull(authResult) /\ ~Has(authResult, "error"))

\* C16, amended: the same, after a verify result without a truthy `error`
\* field.
C16_SuccessAfterVerifyWithoutTruthyError ==
  SuccessResult(~IsNull(authResult) /\ ~(Has(authResult, "error") /\ Truthy(authResult.error)))

\* A success:true result of a run in which all four steps failed.
C16_Witness ==
  /\ pc = "acct_done"
  /\ result.success
  /\ IsNull(result.profile)
  /\ IsNull(result.streak)
  /\ IsNull(result.exp)
  /\ ~result.tasks.success

\* ------------------------------------------------------------------ C17
\* saveCookies ran in this step: it is the step in which a nonce response or
\* a verify response arrived, and the flow goes on with the response body
\* whatever the save did.
SaveFollowsAuthResponse ==
  \/ /\ pc = "nonce_wait"
     /\ \E r \in inflight : r.kind = "nonce"
     /\ inflight' = {}
     /\ pc' = "sign"
     /\ nonceData' \in NonceBodies
  \/ /\ pc = "verify_wait"
     /\ \E r \in inflight : r.kind = "verify"
     /\ inflight' = {}
     /\ pc' = "auth_check"
     /\ authResult' \in VerifyBodies

\* C17: the cookie file is written only by a saveCookies call, saveCookies
\* is called only right after a nonce response and after a verify response,
\* so at most twice and with at most two writes in a processAccount run; no
\* other request's step touches the file; and when the save fails (returns
\* false or throws inside) the flow continues as when it succeeds.
C17_CookieWritesOnlyAfterNonceAndVerify ==
  /\ [](Len(saves) <= 2 /\ cookieWrites <= Len(saves))
  /\ [][(cookieFile' # cookieFile \/ cookieWrites' > cookieWrites) =>
          (Len(saves') = Len(saves) + 1 /\ saves'[Len(saves')] = "written")]_vars
  /\ [][Len(saves') > Len(saves) =>
          (Len(saves') = Len(saves) + 1 /\ SaveFollowsAuthResponse)]_vars
  /\ [](pc \in AccountPcs =>
          /\ Len(saves) >= 1 => (pc = "sign" \/ calls["signMessage"] = 1)
          /\ Len(saves) = 2 => (pc = "auth_check" \/ calls["verifySignature"] = 1)
          /\ (pc = "acct_done" /\ Has(result, "error")) =>
               result.error \in TransportMessages
                                \cup {"Invalid Private Key", "signing failed",
                                      "Cannot read properties of null (reading 'error')"})

\* A wallet was processed to success although both saves failed, and the
\* cookie file was not written.
C17_Witness ==
  /\ pc = "acct_done"
  /\ result.success
  /\ saves = <<"threw", "nonstring">>
  /\ cookieWrites = 0
  /\ ~cookieFile

\* ------------------------------------------------------------------ C18
NoVerifyTaskCall ==
  /\ pc = "tasks_return"
  /\ verified = << >>
  /\ calls["verifyTask"] = 0
  /\ \A r \in inflight : r.kind # "taskVerify"

\* C18: processSocialTasks calls verifyTask not at all when the task request
\* failed or gave an empty list, and reports {success:false, completed:0,
\* total:0}; nor when every task of the list is completed, and reports
\* {success:true, completed:0, total, alreadyCompleted:total}.
C18_NoVerifyWithoutPendingTask ==
  pc \in TaskLoopPcs =>
    /\ (tasksFetch = "failed" \/ tasks = << >>) =>
         /\ NoVerifyTaskCall
         /\ tasksResult = [success |-> FALSE, completed |-> 0, total |-> 0]
    /\ (tasks # << >> /\ \A k \in 1..Len(tasks) : tasks[k].completed) =>
         /\ NoVerifyTaskCall
         /\ tasksResult = [ success |-> TRUE, completed |-> 0, total |-> Len(tasks),
                            alreadyCompleted |-> Len(tasks) ]

\* processSocialTasks returns after a list of two completed tasks.
C18_Witness ==
  /\ pc = "tasks_return"
  /\ tasksFetch = "answered"
  /\ Len(tasks) = 2
  /\ \A k \in 1..2 : tasks[k].completed
  /\ tasksResult.success

\* processSocialTasks returns after a failed task request.
C18_WitnessFetchFailed ==
  /\ pc = "tasks_return"
  /\ tasksFetch = "failed"
  /\ ~tasksResult.success

\* processSocialTasks returns after an empty list.
C18_WitnessEmptyList ==
  /\ pc = "tasks_return"
  /\ tasksFetch = "answered"
  /\ tasks = << >>
  /\ ~tasksResult.success

\* ------------------------------------------------------------------ C19
\* A payload with a numeric current streak, a numeric longest streak and a
\* last-visit date.
NumericStreakPayload(d) ==
  /\ ~IsNull(d)
  /\ d.streak = "num"
  /\ d.longestStreak = "num"
  /\ Truthy(d.lastVisitDate)

\* C19: an attempt of updateStreakWithRetry is accepted only if the response
\* holds a numeric current streak, a numeric longest streak and a last-visit
\* date; every other response (a streak field that is null or a string, a
\* missing date) counts as a failed attempt.
C19_AcceptedOnlyWithNumericStreaks ==
  /\ \A k \in 1..Len(streakOutcomes) :
       streakOutcomes[k].kind = "valid" => NumericStreakPayload(streakOutcomes[k].body)
  /\ (pc = "streak_return" /\ ~IsNull(streakData)) => NumericStreakPayload(streakData)

\* What line 262 does ensure of an accepted payload: both streak fields are
\* present, whatever their type, and the date is truthy.
C19_AcceptedOnlyWithPresentStreaks ==
  \A k \in 1..Len(streakOutcomes) :
    streakOutcomes[k].kind = "valid" =>
      LET d == streakOutcomes[k].body
      IN  ~IsNull(d) /\ d.streak # "undefined" /\ d.longestStreak # "undefined"
          /\ Truthy(d.lastVisitDate)

\* ------------------------------------------------------------------ C20
\* The RETRY_DELAY waits of an updateStreakWithRetry call lie between its
\* POSTs: when it returns, and while a POST is in flight or a wait is about
\* to start, there are as many waits as POSTs but one; a wait is started only
\* when a further POST follows; after a wait the next POST is due.
RetryDelaysBetweenAttempts ==
  /\ pc \in {"streak_wait", "streak_delay", "streak_return"} =>
       /\ streakCalls >= 1
       /\ retryDelays = streakCalls - 1
  /\ pc = "streak_delay" =>
       /\ attempts < MAX_RETRY_ATTEMPTS
       /\ streakOutcomes[Len(streakOutcomes)].kind # "valid"
  /\ pc = "streak_loop" =>
       IF attempts < MAX_RETRY_ATTEMPTS
         THEN retryDelays = streakCalls
         ELSE streakCalls = MAX_RETRY_ATTEMPTS /\ retryDelays = streakCalls - 1

\* The inter-account waits of a cycle lie between its wallets: one after
\* each wallet but the last.
InterDelaysBetweenWallets ==
  /\ pc = "inter_delay" =>
       /\ Len(results) < Len(privateKeys)
       /\ interDelays = Len(results) - 1
  /\ pc \in AccountPcs => interDelays = Len(results)
  /\ (pc = "sleep" /\ ret = "true") =>
       interDelays = IF Len(privateKeys) = 0 THEN 0 ELSE Len(privateKeys) - 1

\* C20: updateStreakWithRetry waits RETRY_DELAY only between two attempts,
\* calls minus one times, not after the attempt that gave a valid payload
\* nor after the last attempt; processAllAccounts waits N-1 times for N
\* wallets (not at all for none), never after the last wallet.
C20_DelaysOnlyBetween ==
  /\ RetryDelaysBetweenAttempts
  /\ InterDelaysBetweenWallets

\* The second wallet of two reaches the end of an exhausted streak update:
\* three POSTs, two waits, one inter-account wait.
C20_Witness ==
  /\ pc = "streak_return"
  /\ Wallet = 2
  /\ streakCalls = 3
  /\ retryDelays = 2
  /\ IsNull(streakData)
  /\ interDelays = 1

====
